---- MODULE Spec2Model ----
(***************************************************************************)
(* The monitoring loop of monitor.py: SystemMonitor, ApplicationMonitor,   *)
(* ProcessMonitor and Monitor.monitor(), as a state machine whose steps    *)
(* are the statements of one round.  The operating system, the probed      *)
(* server, the file system and the operator (Ctrl-C) are the environment.  *)
(***************************************************************************)
EXTENDS Integers, Sequences, FiniteSets, TLC

(* ------------------------------ bounds --------------------------------- *)
\* rounds of a run with a faulty environment
MaxRounds == 3
\* abnormal environment events (spikes, failed queries, probe failures,
\* process races, write errors) in a run with a faulty environment
MaxFaults == 2
\* rounds of a run in a steady environment (long enough to overflow both
\* the 60-sample histories and the 100-entry error FIFO)
LongRounds == 102
\* period of the steady workload's readings
WorkloadPeriod == 64
\* distinct creation times of backups
MaxStamp == 6

(* -------------------------- program constants -------------------------- *)
HistCap == 60
ErrCap == 100
CpuAlert == 90
MemAlert == 90
HttpOk == 200
ErrWindow == 100

(* ------------------------------ helpers -------------------------------- *)
Min(a, b) == IF a <= b THEN a ELSE b

Last(s) == s[Len(s)]

RECURSIVE SumSeq(_)
SumSeq(s) == IF s = <<>> THEN 0 ELSE Head(s) + SumSeq(Tail(s))

RECURSIVE Gcd(_, _)
Gcd(a, b) == IF b = 0 THEN a ELSE Gcd(b, a % b)

\* the last n elements of s (all of s when it is shorter)
LastN(s, n) == IF Len(s) <= n THEN s ELSE SubSeq(s, Len(s) - n + 1, Len(s))

\* a Python dict with no key
EmptyDict == <<>>

\* a bounded buffer that refuses new values when full
DequeAppendKeepOldest(d, x, maxlen) ==
    IF Len(d) >= maxlen THEN d ELSE Append(d, x)

\* collections.deque(maxlen=...).append: the left end is dropped when full
DequeAppend(d, x, maxlen) ==
    IF Len(d) >= maxlen THEN Append(Tail(d), x) ELSE Append(d, x)

(* ----------------------------- exceptions ------------------------------ *)
NoExc == [cls |-> "None", msg |-> ""]

\* the classes an exception of class c is an instance of
ExcBases(c) ==
    CASE c = "KeyboardInterrupt" -> {"KeyboardInterrupt", "BaseException"}
      [] c = "OSError"           -> {"OSError", "Exception", "BaseException"}
      [] c = "ConnectionError"   ->
           {"ConnectionError", "OSError", "Exception", "BaseException"}
      [] c = "HTTPError"         ->
           {"HTTPError", "OSError", "Exception", "BaseException"}
      [] c = "NoSuchProcess"     -> {"NoSuchProcess", "Exception", "BaseException"}
      [] c = "AccessDenied"      -> {"AccessDenied", "Exception", "BaseException"}
      [] c = "AttributeError"    -> {"AttributeError", "Exception", "BaseException"}
      [] c = "TypeError"         -> {"TypeError", "Exception", "BaseException"}
      [] c = "MemoryError"       -> {"MemoryError", "Exception", "BaseException"}
      [] OTHER                   -> {}

\* does an except clause naming the classes `clause` catch exception e
Catches(clause, e) == (clause \cap ExcBases(e.cls)) # {}

\* check_health: except Exception
CheckHealthExcept == {"Exception"}

\* save_stats without an except clause
SaveStatsExceptNone == {}

\* save_stats: except Exception
SaveStatsExcept == {"Exception"}

\* find_processes, get_process_info: except (NoSuchProcess, AccessDenied)
ProcessExcept == {"NoSuchProcess", "AccessDenied"}

\* monitor without an except clause
MonitorExceptNone == {}

\* monitor: except KeyboardInterrupt
MonitorExcept == {"KeyboardInterrupt"}

\* main: except Exception
MainExcept == {"Exception"}

(* -------------------------------- state -------------------------------- *)
VARIABLES
    pc,              \* position of the single thread of control
    is_running,      \* Monitor.is_running
    quiet,           \* args.quiet
    round,           \* number of loop iterations started
    steps,           \* the steps the current round has begun, in order
    cpu_history, memory_history, disk_history,   \* SystemMonitor deques
    response_times, errors,                      \* ApplicationMonitor deques
    process_name,    \* ProcessMonitor.process_name
    processes,       \* ProcessMonitor.processes
    enumerated,      \* what the last psutil.process_iter enumerated
    health,          \* collect_stats: health
    process_info,    \* collect_stats: process_info
    point,           \* collect_stats: the point values read so far for stats
    stats,           \* monitor: stats
    file,            \* monitor_stats.json on disk
    display,         \* what the terminal shows
    roundLog,        \* log events emitted in the current round
    prevLog,         \* log events emitted in the round before
    exc,             \* the exception in flight
    result,          \* how monitor() ended
    exit_code,       \* the exit status of the process (empty while it runs)
    conn,            \* the probe's HTTP exchange
    wire,            \* what the last finished exchange delivered
    steady, serverUp, faults,                    \* environment
    interruptedAt,   \* where the operator's interrupt arrived
    cpuLog, memLog, diskLog, rtLog,              \* every value ever appended
    failures,        \* failed probes so far
    updCalls,        \* update_history calls that returned
    infoCalls,       \* get_process_info calls in the current round
    lastSaved,       \* snapshot of the last save_stats that succeeded
    saveFailedIn,    \* round of the last failed write of the stats file (0: none)
    completed        \* rounds whose alert checks have been done

\* deploy.py: Deployer.deploy_all and the directories it works on
VARIABLES
    dpc,             \* position of deploy_all
    dist,            \* the build output directory dist/
    deploy_dir,      \* what the deploy directory holds
    backups,         \* the entries of backups/ named backup_*
    backup_path,     \* the backup this run has made (empty: none)
    deploy_errors,   \* Deployer.errors
    success,         \* what deploy_all returned
    ran,             \* the steps of deploy_all that were started, in order
    removed          \* deploy_files has deleted an existing deploy directory

sysVars == <<cpu_history, memory_history, disk_history, cpuLog, memLog, diskLog, updCalls>>
appVars == <<response_times, errors, rtLog, failures, conn, wire>>
procVars == <<process_name, processes, enumerated, process_info, infoCalls>>
envVars == <<steady, serverUp, quiet>>
depVars == <<dpc, dist, deploy_dir, backups, backup_path, deploy_errors,
             success, ran, removed>>
outVars == <<file, display, lastSaved, saveFailedIn, completed>>

vars == <<pc, is_running, round, steps, health, point, stats, roundLog, prevLog,
          exc, result, exit_code,
          faults, interruptedAt, sysVars, appVars, procVars, envVars, outVars,
          depVars>>

NoValue == [none |-> TRUE]

Absent == [state |-> "absent"]

\* main() is about to build the Monitor: the fields hold what Monitor(args)
\* gives them, but for the filter of its ProcessMonitor
Constructed ==
    /\ pc = "main"
    /\ is_running = FALSE
    /\ quiet \in BOOLEAN
    /\ steady \in BOOLEAN
    /\ serverUp \in BOOLEAN
    /\ round = 0
    /\ steps = <<>>
    /\ cpu_history = <<>> /\ memory_history = <<>> /\ disk_history = <<>>
    /\ response_times = <<>> /\ errors = <<>>
    /\ processes = <<>>
    /\ enumerated = <<>>
    /\ health = NoValue
    /\ process_info = EmptyDict
    /\ point = <<>>
    /\ stats = NoValue
    /\ file = Absent
    /\ display = NoValue
    /\ roundLog = {}
    /\ prevLog = {}
    /\ exc = NoExc
    /\ result = "running"
    /\ exit_code = <<>>
    /\ conn = "idle"
    /\ wire = NoValue
    /\ faults = 0
    /\ interruptedAt = "never"
    /\ cpuLog = <<>> /\ memLog = <<>> /\ diskLog = <<>> /\ rtLog = <<>>
    /\ failures = 0
    /\ updCalls = 0
    /\ infoCalls = 0
    /\ lastSaved = NoValue
    /\ saveFailedIn = 0
    /\ completed = 0

(* ----------------------------- environment ----------------------------- *)
\* the environment may still misbehave in this run
CanFault == ~steady /\ faults < MaxFaults

RoundLimit == IF steady THEN LongRounds ELSE MaxRounds

\* readings of the steady workload in round r
NominalCpu(r) == 10 + (r % WorkloadPeriod)
NominalMem(r) == 20 + (r % WorkloadPeriod)
NominalDisk(r) == 50
NominalLatency(r) == 1 + (r % 3)

\* readings around the alert threshold
CpuSpikes == {CpuAlert, CpuAlert + 1}
MemSpikes == {MemAlert, MemAlert + 1}
DiskSpikes == {95}

\* what psutil.cpu_percent / virtual_memory().percent / disk_usage('/').percent
\* can return now
CpuReadings == {NominalCpu(round)} \cup (IF CanFault THEN CpuSpikes ELSE {})
MemReadings == {NominalMem(round)} \cup (IF CanFault THEN MemSpikes ELSE {})
DiskReadings == {NominalDisk(round)} \cup (IF CanFault THEN DiskSpikes ELSE {})

Charge(abnormal) == faults' = IF abnormal THEN faults + 1 ELSE faults

(* --------------------------- exception routing ------------------------- *)
ProbePcs == {"probe", "probe_wait"}
SavePcs == {"save_open", "save_write"}

\* the except block an exception raised at position p lands in
Landing(p, e) ==
    IF p \in ProbePcs /\ Catches(CheckHealthExcept, e) THEN "probe_except"
    ELSE IF p \in SavePcs /\ Catches(SaveStatsExcept, e) THEN "save_except"
    ELSE "except"

Raise(e) ==
    /\ exc' = e
    /\ pc' = Landing(pc, e)

(* ---------------------------------- main ------------------------------- *)
\* monitor = Monitor(args): the object is built, or its construction fails
Construct ==
    /\ pc = "main"
    /\ \/ /\ pc' = "start"
          /\ UNCHANGED <<faults, exc>>
       \/ /\ CanFault
          /\ Charge(TRUE)
          /\ exc' = [cls |-> "MemoryError", msg |-> "construction"]
          /\ pc' = "main_except"
    /\ UNCHANGED <<is_running, round, steps, health, point, stats, roundLog,
                   prevLog, result, exit_code, interruptedAt, sysVars, appVars,
                   procVars, envVars, depVars, outVars>>

\* a handler that logs the failure and forgets sys.exit(1)
ExitCodeAlwaysZero(e) == 0

\* the exit status main() ends the process with when exception e (NoExc: none)
\* has come out of its try block: sys.exit(1) in the handler, the traceback
\* of the interpreter (non-zero as well) for what the handler does not catch
ExitCodeOf(e) == IF e = NoExc THEN 0 ELSE 1

\* except Exception as e: logger.error(...); sys.exit(1), or main() returns
MainExit ==
    /\ pc \in {"done", "main_except"}
    /\ roundLog' = IF Catches(MainExcept, exc)
                     THEN roundLog \cup {"critical"} ELSE roundLog
    /\ exit_code' = <<ExitCodeOf(exc)>>
    /\ pc' = "exited"
    /\ UNCHANGED <<prevLog, is_running, round, steps, health, point, stats, exc,
                   result, faults, interruptedAt, sysVars, appVars, procVars,
                   envVars, depVars, outVars>>

(* ------------------------ the stats dict and the deques ---------------- *)
\* a stats dict whose lists are the deques themselves
RetainedByReference(s, block, key, live) ==
    IF s = NoValue THEN s ELSE [s EXCEPT ![block][key] = live]

\* the stats dict s of an earlier collect_stats once the deque behind its
\* entry s[block][key] has become `live`: list(...) gave the dict a list of
\* its own, so the append does not reach it
Retained(s, block, key, live) == s

(* ------------------------------ Monitor.monitor ------------------------ *)
\* monitor(): self.is_running = True
Start ==
    /\ pc = "start"
    /\ is_running' = TRUE
    /\ pc' = "while"
    /\ UNCHANGED <<round, steps, health, point, stats, roundLog, prevLog, exc,
                   result, exit_code, faults, interruptedAt, sysVars, appVars,
                   procVars, envVars, depVars, outVars>>

\* while self.is_running: (a new round begins)
While ==
    /\ pc = "while"
    /\ round < RoundLimit
    /\ IF is_running
         THEN /\ pc' = "upd_cpu"
              /\ round' = round + 1
              /\ steps' = <<>>
              /\ roundLog' = {}
              /\ prevLog' = roundLog
              /\ infoCalls' = 0
         ELSE /\ pc' = "finally"
              /\ UNCHANGED <<round, steps, roundLog, prevLog, infoCalls>>
    /\ UNCHANGED <<is_running, health, point, stats, exc, result, exit_code,
                   faults, interruptedAt, sysVars, appVars, process_name,
                   processes, enumerated, process_info, envVars, depVars,
                   outVars>>

(* ----------------------- SystemMonitor.update_history ------------------ *)
\* self.cpu_history.append(self.get_cpu_usage())
UpdCpu ==
    /\ pc = "upd_cpu"
    /\ steps' = Append(steps, "history")
    /\ \/ \E v \in CpuReadings :
            /\ Charge(v # NominalCpu(round))
            /\ cpu_history' = DequeAppend(cpu_history, v, HistCap)
            /\ cpuLog' = Append(cpuLog, v)
            /\ pc' = "upd_mem"
            /\ UNCHANGED exc
       \/ /\ CanFault
          /\ Charge(TRUE)
          /\ Raise([cls |-> "OSError", msg |-> "cpu"])
          /\ UNCHANGED <<cpu_history, cpuLog>>
    /\ stats' = Retained(stats, "system", "cpu_history", cpu_history')
    /\ UNCHANGED <<is_running, round, health, point, roundLog, prevLog, result,
                   exit_code, interruptedAt, memory_history, disk_history,
                   memLog, diskLog, updCalls, appVars, procVars, envVars,
                   depVars, outVars>>

\* self.memory_history.append(self.get_memory_usage()['percent'])
UpdMem ==
    /\ pc = "upd_mem"
    /\ \/ \E v \in MemReadings :
            /\ Charge(v # NominalMem(round))
            /\ memory_history' = DequeAppend(memory_history, v, HistCap)
            /\ memLog' = Append(memLog, v)
            /\ pc' = "upd_disk"
            /\ UNCHANGED exc
       \/ /\ CanFault
          /\ Charge(TRUE)
          /\ Raise([cls |-> "OSError", msg |-> "memory"])
          /\ UNCHANGED <<memory_history, memLog>>
    /\ stats' = Retained(stats, "system", "memory_history", memory_history')
    /\ UNCHANGED <<is_running, round, steps, health, point, roundLog, prevLog,
                   result, exit_code, interruptedAt, cpu_history, disk_history,
                   cpuLog, diskLog, updCalls, appVars, procVars, envVars,
                   depVars, outVars>>

\* self.disk_history.append(self.get_disk_usage()['percent']); return
UpdDisk ==
    /\ pc = "upd_disk"
    /\ \/ \E v \in DiskReadings :
            /\ Charge(v # NominalDisk(round))
            /\ disk_history' = DequeAppend(disk_history, v, HistCap)
            /\ diskLog' = Append(diskLog, v)
            /\ updCalls' = updCalls + 1
            /\ pc' = "probe"
            /\ UNCHANGED exc
       \/ /\ CanFault
          /\ Charge(TRUE)
          /\ Raise([cls |-> "OSError", msg |-> "disk"])
          /\ UNCHANGED <<disk_history, diskLog, updCalls>>
    /\ stats' = Retained(stats, "system", "disk_history", disk_history')
    /\ UNCHANGED <<is_running, round, steps, health, point, roundLog, prevLog,
                   result, exit_code, interruptedAt, cpu_history,
                   memory_history, cpuLog, memLog, appVars, procVars, envVars,
                   depVars, outVars>>

(* ----------------------- ApplicationMonitor.check_health ---------------- *)
\* the timeout argument of requests.get(self.url): none is passed
NoTimeout == "None"
RequestTimeout == NoTimeout

StatusCodes == {HttpOk, 500}

\* what the server answers when nothing abnormal happens
NominalStatus == HttpOk

\* failures requests.get can raise while the exchange is pending
NetworkErrors == {[cls |-> "ConnectionError", msg |-> "refused"],
                  [cls |-> "ConnectionError", msg |-> "dns"]}
NominalError == [cls |-> "ConnectionError", msg |-> "refused"]
ReadTimeout == [cls |-> "ConnectionError", msg |-> "read timed out"]

\* start_time = time.time(); requests.get(self.url) is issued
ProbeSend ==
    /\ pc = "probe"
    /\ steps' = Append(steps, "probe")
    /\ conn' = "pending"
    /\ pc' = "probe_wait"
    /\ UNCHANGED <<is_running, round, health, point, stats, roundLog, prevLog,
                   exc, result, exit_code, faults, interruptedAt, sysVars,
                   response_times, errors, rtLog, failures, wire, procVars,
                   envVars, depVars, outVars>>

\* the server has accepted the connection and will never answer
ProbeStall ==
    /\ pc = "probe_wait"
    /\ conn = "pending"
    /\ CanFault
    /\ Charge(TRUE)
    /\ conn' = "silent"
    /\ UNCHANGED <<pc, is_running, round, steps, health, point, stats, roundLog,
                   prevLog, exc, result, exit_code, interruptedAt, sysVars,
                   response_times, errors, rtLog, failures, wire, procVars,
                   envVars, depVars, outVars>>

\* a health record that takes every response for a healthy one
HealthOfResponseAlwaysAlive(status, response_time) ==
    [status |-> status, response_time |-> response_time, is_alive |-> TRUE]

\* the health record of a probe that got a response
HealthOfResponse(status, response_time) ==
    [status |-> status, response_time |-> response_time,
     is_alive |-> (status = HttpOk)]

\* the health record of a probe whose request raised e
HealthOfFailure(e) ==
    [status |-> 0, response_time |-> 0, is_alive |-> FALSE, error |-> e.msg]

\* the entry check_health puts in self.errors (time: the round's clock)
ErrorRecord(now, e) == [time |-> now, error |-> e.msg]

\* a handler that forgets to record the error
RecordErrorDropped(errs, now, e) == errs

\* an error buffer that starts over when it is full
RecordErrorRestart(errs, now, e) ==
    IF Len(errs) = ErrCap THEN <<ErrorRecord(now, e)>>
    ELSE Append(errs, ErrorRecord(now, e))

\* self.errors.append({...}) on the deque of maxlen 100
RecordError(errs, now, e) == DequeAppend(errs, ErrorRecord(now, e), ErrCap)

\* a request that raises for every status but 200 (raise_for_status)
RaiseForStatus(status) == status # HttpOk

\* does requests.get raise for a response with this status: it returns the
\* response whatever its status, and check_health has no raise_for_status
StatusRaises(status) == FALSE

\* a response arrives: response_time is appended and the record returned
ProbeResponse ==
    /\ pc = "probe_wait"
    /\ conn = "pending"
    /\ \E status \in StatusCodes :
         /\ (serverUp /\ status = NominalStatus) \/ CanFault
         /\ Charge(~(serverUp /\ status = NominalStatus))
         /\ wire' = [status |-> status]
         /\ IF StatusRaises(status)
              THEN /\ Raise([cls |-> "HTTPError", msg |-> "status"])
                   /\ UNCHANGED <<response_times, rtLog, health>>
              ELSE LET response_time == NominalLatency(round) IN
                   /\ response_times' =
                        DequeAppend(response_times, response_time, HistCap)
                   /\ rtLog' = Append(rtLog, response_time)
                   /\ health' = HealthOfResponse(status, response_time)
                   /\ pc' = "find"
                   /\ UNCHANGED exc
    /\ conn' = "idle"
    /\ UNCHANGED <<is_running, round, steps, point, stats, roundLog, prevLog,
                   result, exit_code, interruptedAt, sysVars, errors, failures,
                   procVars, envVars, depVars, outVars>>

\* the exceptions requests.get can raise in the current state of the exchange
RequestExceptions ==
    IF conn = "silent"
      THEN (IF RequestTimeout = NoTimeout THEN {} ELSE {ReadTimeout})
      ELSE {e \in NetworkErrors : (~serverUp /\ e = NominalError) \/ CanFault}

\* requests.get raises
ProbeError ==
    /\ pc = "probe_wait"
    /\ \E e \in RequestExceptions :
         /\ Charge(~(~serverUp /\ e = NominalError) /\ conn # "silent")
         /\ Raise(e)
         /\ wire' = [error |-> e.msg]
    /\ UNCHANGED <<is_running, round, steps, health, point, stats, roundLog,
                   prevLog, result, exit_code, interruptedAt, sysVars,
                   response_times, errors, rtLog, failures, conn, procVars,
                   envVars, depVars, outVars>>

\* except Exception as e: the error is recorded and the failure record returned
ProbeExcept ==
    /\ pc = "probe_except"
    /\ errors' = RecordError(errors, round, exc)
    /\ stats' = Retained(stats, "application", "recent_errors", errors')
    /\ failures' = failures + 1
    /\ health' = HealthOfFailure(exc)
    /\ exc' = NoExc
    /\ conn' = "idle"
    /\ pc' = "find"
    /\ UNCHANGED <<is_running, round, steps, point, roundLog, prevLog, result,
                   exit_code, faults, interruptedAt, sysVars, response_times,
                   rtLog, wire, procVars, envVars, depVars, outVars>>

\* an average over the capacity of the deque instead of its length
AverageOverCapacity(times) ==
    LET total == SumSeq(times)
        g == Gcd(total, HistCap)
    IN [num |-> total \div g, den |-> HistCap \div g]

\* ApplicationMonitor.get_average_response_time, as an exact fraction
get_average_response_time(times) ==
    IF times = <<>> THEN [num |-> 0, den |-> 1]
    ELSE LET total == SumSeq(times)
             g == Gcd(total, Len(times))
         IN [num |-> total \div g, den |-> Len(times) \div g]

\* (n / 100) * 100 in IEEE double arithmetic is n, except for these n, where
\* it is the double next above n, or next below n
FloatAbove == {7, 14, 28, 55, 56}
FloatBelow == {29, 57, 58}

\* an error rate that forgets the multiplication by 100
ErrorRateAsFraction(errs) == [n |-> Len(errs) \div ErrWindow, ulp |-> 0]

\* ApplicationMonitor.get_error_rate: n plus the rounding error in ulps
get_error_rate(errs) ==
    IF errs = <<>> THEN [n |-> 0, ulp |-> 0]
    ELSE LET n == (Len(errs) * 100) \div ErrWindow IN
         [n |-> n,
          ulp |-> IF Len(errs) \in FloatAbove THEN 1
                  ELSE IF Len(errs) \in FloatBelow THEN -1 ELSE 0]

(* ------------------------------ ProcessMonitor ------------------------- *)
\* str.lower on the characters that occur
LowerChar(c) ==
    CASE c = "P" -> "p" [] c = "Y" -> "y" [] c = "T" -> "t" [] c = "H" -> "h"
      [] c = "O" -> "o" [] c = "N" -> "n" [] c = "S" -> "s" [] c = "E" -> "e"
      [] c = "R" -> "r" [] c = "V" -> "v" [] OTHER -> c

Lower(s) == [i \in 1..Len(s) |-> LowerChar(s[i])]

\* sub in s, for strings as sequences of characters
Contains(s, sub) ==
    \E i \in 0..(Len(s) - Len(sub)) : SubSeq(s, i + 1, i + Len(sub)) = sub

\* the default of ProcessMonitor's process_name ('python'), the filters a
\* ProcessMonitor can be constructed with, and the entry point
DefaultProcessName == <<"p", "y", "t", "h", "o", "n">>
NameFilters == {DefaultProcessName, <<"P", "y", "t", "h", "o", "n">>,
                <<"P", "Y", "T", "H", "O", "N">>}
EntryPoint == <<"s", "e", "r", "v", "e", "r", ".", "p", "y">>

\* processes the operating system may be running
ProcServer == [pid |-> 11, name |-> <<"p", "y", "t", "h", "o", "n", "3">>,
               cmdline |-> << <<"p", "y", "t", "h", "o", "n", "3">>,
                              <<"s", "e", "r", "v", "e", "r", ".", "p", "y">> >>,
               denied |-> {}]
ProcUpper == [pid |-> 12, name |-> <<"P", "y", "t", "h", "o", "n">>,
               cmdline |-> << <<"P", "y", "t", "h", "o", "n">>, <<>>,
                              <<"/", "S", "E", "R", "V", "E", "R", ".", "P", "Y">> >>,
               denied |-> {}]
ProcOther == [pid |-> 13, name |-> <<"p", "y", "t", "h", "o", "n", "3">>,
               cmdline |-> << <<"p", "y", "t", "h", "o", "n", "3">>,
                              <<"m", "o", "n", "i", "t", "o", "r", ".", "p", "y">> >>,
               denied |-> {}]
ProcNginx == [pid |-> 14, name |-> <<"n", "g", "i", "n", "x">>,
               cmdline |-> << <<"n", "g", "i", "n", "x">>,
                              <<"s", "e", "r", "v", "e", "r", ".", "p", "y">> >>,
               denied |-> {}]
\* another user's interpreter: its command line may not be read
ProcForeign == [pid |-> 15, name |-> <<"p", "y", "t", "h", "o", "n", "3">>,
                cmdline |-> <<>>, denied |-> {"cmdline"}]
\* a system process: neither its name nor its command line may be read
ProcSystem == [pid |-> 4, name |-> <<>>, cmdline |-> <<>>,
               denied |-> {"name", "cmdline"}]

\* what psutil.process_iter can enumerate, in enumeration order
NominalTable == <<ProcServer, ProcNginx>>
ProcTables == {NominalTable, <<>>, <<ProcOther, ProcNginx>>,
               <<ProcUpper, ProcServer, ProcOther>>,
               <<ProcServer, ProcForeign>>, <<ProcSystem, ProcServer>>}

\* the exception the test of find_processes raises on one enumerated process:
\* process_iter(attrs) stores None for an attribute whose read was denied, so
\* None.lower() raises AttributeError and iterating None raises TypeError
TestRaises(name_filter, proc) ==
    IF "name" \in proc.denied
      THEN [cls |-> "AttributeError", msg |-> "process"]
    ELSE IF Contains(Lower(proc.name), name_filter) /\ "cmdline" \in proc.denied
      THEN [cls |-> "TypeError", msg |-> "process"]
    ELSE NoExc

\* the test find_processes applies to one enumerated process
Matches(name_filter, proc) ==
    /\ Contains(Lower(proc.name), name_filter)
    /\ \E i \in 1..Len(proc.cmdline) :
         /\ proc.cmdline[i] # <<>>
         /\ Contains(Lower(proc.cmdline[i]), EntryPoint)

\* the for loop of find_processes over the rest of an enumeration, with the
\* matches appended so far
RECURSIVE ScanProcesses(_, _, _)
ScanProcesses(name_filter, table, found) ==
    IF table = <<>> THEN [procs |-> found, exc |-> NoExc]
    ELSE LET proc == Head(table)
             e == TestRaises(name_filter, proc)
         IN  IF e # NoExc
               THEN IF Catches(ProcessExcept, e)
                      THEN ScanProcesses(name_filter, Tail(table), found)
                      ELSE [procs |-> found, exc |-> e]
             ELSE IF Matches(name_filter, proc)
               THEN ScanProcesses(name_filter, Tail(table), Append(found, proc))
             ELSE ScanProcesses(name_filter, Tail(table), found)

\* ProcessMonitor.find_processes over an enumeration: self.processes as the
\* call leaves it, and the exception that leaves the call (NoExc: it returns)
find_processes(name_filter, table) == ScanProcesses(name_filter, table, <<>>)

\* what get_process_info returns for a process it could read
ProcessInfo(proc) ==
    [pid |-> proc.pid, cpu_percent |-> 1, memory_rss |-> 30, memory_vms |-> 200,
     threads |-> 2, connections |-> 1, open_files |-> 3]

\* a lookup that asks for the first match without testing for one
AfterFindAlwaysInfo(procs) == "getinfo"

\* if processes: get_process_info is called only for a non-empty result
AfterFind(procs) == IF procs # <<>> THEN "getinfo" ELSE "asm_cpu"

\* processes = self.process_monitor.find_processes(); process_info = {}
FindProcesses ==
    /\ pc = "find"
    /\ steps' = Append(steps, "lookup")
    /\ \E table \in ProcTables :
         /\ table = NominalTable \/ CanFault
         /\ Charge(table # NominalTable)
         /\ enumerated' = table
         /\ LET found == find_processes(process_name, table) IN
              /\ processes' = found.procs
              /\ IF found.exc = NoExc
                   THEN /\ process_info' = EmptyDict
                        /\ pc' = AfterFind(processes')
                        /\ UNCHANGED exc
                   ELSE /\ Raise(found.exc)
                        /\ UNCHANGED process_info
    /\ UNCHANGED <<is_running, round, health, point, stats, roundLog, prevLog,
                   result, exit_code, interruptedAt, sysVars, appVars,
                   process_name, infoCalls, envVars, depVars, outVars>>

\* process_info = self.process_monitor.get_process_info(processes[0])
GetProcessInfo ==
    /\ pc = "getinfo"
    /\ infoCalls' = infoCalls + 1
    /\ \/ /\ process_info' = ProcessInfo(processes[1])
          /\ pc' = "asm_cpu"
          /\ UNCHANGED <<faults, exc>>
       \/ \E c \in {"NoSuchProcess", "AccessDenied"} :
            LET e == [cls |-> c, msg |-> "process"] IN
            /\ CanFault
            /\ Charge(TRUE)
            /\ IF Catches(ProcessExcept, e)
                 THEN /\ process_info' = EmptyDict
                      /\ pc' = "asm_cpu"
                      /\ UNCHANGED exc
                 ELSE /\ Raise(e)
                      /\ UNCHANGED process_info
    /\ UNCHANGED <<is_running, round, steps, health, point, stats, roundLog,
                   prevLog, result, exit_code, interruptedAt, sysVars, appVars,
                   process_name, processes, enumerated, envVars, depVars,
                   outVars>>

(* ------------------------- Monitor.collect_stats ----------------------- *)
\* 'cpu_percent': self.system_monitor.get_cpu_usage()
AsmCpu ==
    /\ pc = "asm_cpu"
    /\ steps' = Append(steps, "assembly")
    /\ \/ \E v \in CpuReadings :
            /\ Charge(v # NominalCpu(round))
            /\ point' = <<v>>
            /\ pc' = "asm_mem"
            /\ UNCHANGED exc
       \/ /\ CanFault
          /\ Charge(TRUE)
          /\ Raise([cls |-> "OSError", msg |-> "cpu"])
          /\ UNCHANGED point
    /\ UNCHANGED <<is_running, round, health, stats, roundLog, prevLog, result,
                   exit_code, interruptedAt, sysVars, appVars, procVars,
                   envVars, depVars, outVars>>

\* 'memory_percent': self.system_monitor.get_memory_usage()['percent']
AsmMem ==
    /\ pc = "asm_mem"
    /\ \/ \E v \in MemReadings :
            /\ Charge(v # NominalMem(round))
            /\ point' = Append(point, v)
            /\ pc' = "asm_disk"
            /\ UNCHANGED exc
       \/ /\ CanFault
          /\ Charge(TRUE)
          /\ Raise([cls |-> "OSError", msg |-> "memory"])
          /\ UNCHANGED point
    /\ UNCHANGED <<is_running, round, steps, health, stats, roundLog, prevLog,
                   result, exit_code, interruptedAt, sysVars, appVars, procVars,
                   envVars, depVars, outVars>>

\* 'disk_percent': self.system_monitor.get_disk_usage()['percent']
AsmDisk ==
    /\ pc = "asm_disk"
    /\ \/ \E v \in DiskReadings :
            /\ Charge(v # NominalDisk(round))
            /\ point' = Append(point, v)
            /\ pc' = "assemble"
            /\ UNCHANGED exc
       \/ /\ CanFault
          /\ Charge(TRUE)
          /\ Raise([cls |-> "OSError", msg |-> "disk"])
          /\ UNCHANGED point
    /\ UNCHANGED <<is_running, round, steps, health, stats, roundLog, prevLog,
                   result, exit_code, interruptedAt, sysVars, appVars, procVars,
                   envVars, depVars, outVars>>

\* the stats dict collect_stats builds (timestamp: the round's clock)
Snapshot ==
    [timestamp |-> round,
     system |-> [cpu_percent |-> point[1],
                 memory_percent |-> point[2],
                 disk_percent |-> point[3],
                 cpu_history |-> cpu_history,
                 memory_history |-> memory_history,
                 disk_history |-> disk_history],
     application |-> [is_alive |-> health.is_alive,
                      status_code |-> health.status,
                      response_time |-> health.response_time,
                      avg_response_time |-> get_average_response_time(response_times),
                      error_rate |-> get_error_rate(errors),
                      recent_errors |-> errors],
     process |-> process_info]

\* a loop that renders the snapshot without persisting it first
AfterAssembleRenderFirst == "render"

\* monitor(): self.save_stats(stats) is the statement after collect_stats
AfterAssemble == "save_open"

\* the rest of the dict display; return stats
Assemble ==
    /\ pc = "assemble"
    /\ stats' = Snapshot
    /\ point' = <<>>
    /\ pc' = AfterAssemble
    /\ UNCHANGED <<is_running, round, steps, health, roundLog, prevLog, exc,
                   result, exit_code, faults, interruptedAt, sysVars, appVars,
                   procVars, envVars, depVars, outVars>>

(* --------------------------- Monitor.save_stats ------------------------ *)
\* the stats file after a json.dump that wrote all of s, or only part of it
Complete(s) == [state |-> "complete", data |-> s]
Partial(s) == [state |-> "partial", data |-> s]
Truncated == [state |-> "truncated"]

\* an open of a temporary file, which leaves the stats file as it is
OpenTempFile(f) == f

\* the stats file f once open(self.stats_file, 'w') has returned: mode 'w'
\* empties the file itself
OpenForWrite(f) == Truncated

\* open(self.stats_file, 'w'): the file is truncated, or the open fails
SaveOpen ==
    /\ pc = "save_open"
    /\ steps' = Append(steps, "persist")
    /\ \/ /\ file' = OpenForWrite(file)
          /\ pc' = "save_write"
          /\ UNCHANGED <<faults, exc, saveFailedIn>>
       \/ /\ CanFault
          /\ Charge(TRUE)
          /\ Raise([cls |-> "OSError", msg |-> "open"])
          /\ saveFailedIn' = round
          /\ UNCHANGED file
    /\ UNCHANGED <<is_running, round, health, point, stats, roundLog, prevLog,
                   result, exit_code, interruptedAt, sysVars, appVars, procVars,
                   envVars, depVars, display, lastSaved, completed>>

\* json.dump(stats, f, indent=2) and the close of the with block
SaveWrite ==
    /\ pc = "save_write"
    /\ \/ /\ file' = Complete(stats)
          /\ lastSaved' = stats
          /\ pc' = "render"
          /\ UNCHANGED <<faults, exc, saveFailedIn>>
       \/ /\ CanFault
          /\ Charge(TRUE)
          /\ file' = Partial(stats)
          /\ Raise([cls |-> "OSError", msg |-> "write"])
          /\ saveFailedIn' = round
          /\ UNCHANGED lastSaved
    /\ UNCHANGED <<is_running, round, steps, health, point, stats, roundLog,
                   prevLog, result, exit_code, interruptedAt, sysVars, appVars,
                   procVars, envVars, depVars, display, completed>>

\* except Exception as e: logger.error(...)
SaveExcept ==
    /\ pc = "save_except"
    /\ roundLog' = roundLog \cup {"save_error"}
    /\ exc' = NoExc
    /\ pc' = "render"
    /\ UNCHANGED <<prevLog, is_running, round, steps, health, point, stats,
                   result, exit_code, faults, interruptedAt, sysVars, appVars,
                   procVars, envVars, depVars, outVars>>

(* --------------------------- Monitor.format_stats ---------------------- *)
\* p/q rounded to the nearest integer
RoundDiv(p, q) == (2 * p + q) \div (2 * q)

\* the summary format_stats renders: one decimal for the average latency in
\* milliseconds and for the error rate (both in tenths)
format_stats(s) ==
    [status |-> IF s.application.is_alive THEN "green" ELSE "red",
     cpu |-> s.system.cpu_percent,
     memory |-> s.system.memory_percent,
     disk |-> s.system.disk_percent,
     process |-> IF s.process # EmptyDict
                   THEN [pid |-> s.process.pid,
                         cpu_percent |-> s.process.cpu_percent,
                         memory_rss |-> s.process.memory_rss,
                         threads |-> s.process.threads]
                   ELSE EmptyDict,
     avg_ms |-> RoundDiv(s.application.avg_response_time.num * 10,
                         s.application.avg_response_time.den),
     error_rate |-> s.application.error_rate.n * 10]

\* if not self.args.quiet: clear the terminal and print the summary
Render ==
    /\ pc = "render"
    /\ steps' = IF quiet THEN steps ELSE Append(steps, "render")
    /\ display' = IF quiet THEN display ELSE format_stats(stats)
    /\ pc' = "alerts"
    /\ UNCHANGED <<is_running, round, health, point, stats, roundLog, prevLog,
                   exc, result, exit_code, faults, interruptedAt, sysVars,
                   appVars, procVars, envVars, depVars, file, lastSaved,
                   saveFailedIn, completed>>

\* alerts with a threshold that is reached at 90 already
AlertsOfInclusive(s) ==
    (IF s.system.cpu_percent >= CpuAlert THEN {"cpu_warning"} ELSE {})
    \cup (IF s.system.memory_percent >= MemAlert THEN {"memory_warning"} ELSE {})
    \cup (IF ~s.application.is_alive THEN {"app_error"} ELSE {})

\* the log events of the three threshold checks on s
AlertsOf(s) ==
    (IF s.system.cpu_percent > CpuAlert THEN {"cpu_warning"} ELSE {})
    \cup (IF s.system.memory_percent > MemAlert THEN {"memory_warning"} ELSE {})
    \cup (IF ~s.application.is_alive THEN {"app_error"} ELSE {})

\* alerts that are not repeated while their condition lasts
EmitAlertsOnce(s, before) == AlertsOf(s) \ before

\* what the alert checks log for s in a round that follows one that logged
\* `before`: the code keeps no memory of earlier alerts
EmitAlerts(s, before) == AlertsOf(s)

\* the three if statements after the rendering
Alerts ==
    /\ pc = "alerts"
    /\ steps' = Append(steps, "alerts")
    /\ roundLog' = roundLog \cup EmitAlerts(stats, prevLog)
    /\ completed' = completed + 1
    /\ pc' = "sleep"
    /\ UNCHANGED <<prevLog, is_running, round, health, point, stats, exc,
                   result, exit_code, faults, interruptedAt, sysVars, appVars,
                   procVars, envVars, depVars, file, display, lastSaved,
                   saveFailedIn>>

\* time.sleep(self.args.interval)
Sleep ==
    /\ pc = "sleep"
    /\ steps' = Append(steps, "sleep")
    /\ pc' = "while"
    /\ UNCHANGED <<is_running, round, health, point, stats, roundLog, prevLog,
                   exc, result, exit_code, faults, interruptedAt, sysVars,
                   appVars, procVars, envVars, depVars, outVars>>

(* ------------------------- interrupt and shutdown ---------------------- *)
\* the positions inside the try block of monitor()
TryPcs == {"while", "upd_cpu", "upd_mem", "upd_disk", "probe", "probe_wait",
           "probe_except", "find", "getinfo", "asm_cpu", "asm_mem", "asm_disk",
           "assemble", "save_open", "save_write", "save_except", "render",
           "alerts", "sleep"}

\* the operator's Ctrl-C: KeyboardInterrupt is raised where the thread is
Interrupt ==
    /\ pc \in TryPcs
    /\ interruptedAt = "never"
    /\ interruptedAt' = pc
    /\ Raise([cls |-> "KeyboardInterrupt", msg |-> ""])
    /\ conn' = "idle"
    /\ UNCHANGED <<is_running, round, steps, health, point, stats, roundLog,
                   prevLog, result, exit_code, faults, sysVars, response_times,
                   errors, rtLog, failures, wire, procVars, envVars, depVars,
                   outVars>>

\* except KeyboardInterrupt: logger.info(...)
Except ==
    /\ pc = "except"
    /\ IF Catches(MonitorExcept, exc)
         THEN /\ roundLog' = roundLog \cup {"stopped"}
              /\ exc' = NoExc
         ELSE UNCHANGED <<roundLog, exc>>
    /\ pc' = "finally"
    /\ UNCHANGED <<prevLog, is_running, round, steps, health, point, stats,
                   result, exit_code, faults, interruptedAt, sysVars, appVars,
                   procVars, envVars, depVars, outVars>>

\* finally: self.is_running = False; monitor() returns or re-raises
Finally ==
    /\ pc = "finally"
    /\ is_running' = FALSE
    /\ result' = IF exc = NoExc THEN "returned" ELSE "raised"
    /\ pc' = "done"
    /\ UNCHANGED <<exit_code, round, steps, health, point, stats, roundLog,
                   prevLog, exc, faults, interruptedAt, sysVars, appVars,
                   procVars, envVars, depVars, outVars>>

(* ------------------------- deploy.py: Deployer ------------------------- *)
\* for backup in backups[:-5]: the five last names are kept
KeepBackups == 5

\* names a backup can have: the local time of its creation to the second,
\* in the order sorted() gives backup_%Y%m%d_%H%M%S
Stamps == 1..MaxStamp

\* the monitor's variables
monVars == <<pc, is_running, round, steps, health, point, stats, roundLog,
             prevLog, exc, result, exit_code, faults, interruptedAt, sysVars,
             appVars, procVars, envVars, outVars>>

\* no deployment is under way
DeployIdle ==
    /\ dpc = "idle"
    /\ dist = "complete"
    /\ deploy_dir = "absent"
    /\ backups = {}
    /\ backup_path = <<>>
    /\ deploy_errors = <<>>
    /\ success = "none"
    /\ ran = <<>>
    /\ removed = FALSE

\* Deployer.__init__, in a working directory earlier runs may have left a
\* deployed version and up to five backups in
DeployerConstructed ==
    /\ dpc = "check"
    /\ dist \in {"complete", "incomplete", "absent"}
    /\ deploy_dir \in {"absent", "old"}
    /\ backups \in {[name : S, of : {"earlier"}] :
                      S \in {T \in SUBSET Stamps : Cardinality(T) <= KeepBackups}}
    /\ backup_path = <<>>
    /\ deploy_errors = <<>>
    /\ success = "none"
    /\ ran = <<>>
    /\ removed = FALSE

\* self.errors.append(...); return False, and deploy_all returns False
StepFails(step) ==
    /\ deploy_errors' = Append(deploy_errors, step)
    /\ success' = "false"
    /\ dpc' = "returned"

BackupNames(bs) == {b.name : b \in bs}

\* sorted(self.backup_dir.glob('backup_*'))[:-5]: all but the five entries
\* whose names sort last
Pruned(bs) ==
    {b \in bs : Cardinality({c \in bs : c.name > b.name}) >= KeepBackups}

\* if not self.check_requirements(): return False
CheckRequirements ==
    /\ dpc = "check"
    /\ ran' = Append(ran, "check_requirements")
    /\ IF dist = "complete"
         THEN /\ dpc' = "backup"
              /\ UNCHANGED <<deploy_errors, success>>
         ELSE StepFails("check_requirements")
    /\ UNCHANGED <<dist, deploy_dir, backups, backup_path, removed, monVars>>

\* create_backup up to shutil.copytree(self.deploy_dir, backup_path); the
\* name is the local time, whatever the clock shows
CreateBackup ==
    /\ dpc = "backup"
    /\ ran' = Append(ran, "create_backup")
    /\ IF deploy_dir = "absent"
         THEN /\ dpc' = "deploy"
              /\ UNCHANGED <<backups, backup_path, deploy_errors, success>>
         ELSE \E stamp \in Stamps :
                \/ /\ stamp \notin BackupNames(backups)
                   /\ backups' = backups \cup {[name |-> stamp, of |-> deploy_dir]}
                   /\ backup_path' = <<stamp>>
                   /\ dpc' = "prune"
                   /\ UNCHANGED <<deploy_errors, success>>
                \/ /\ StepFails("create_backup")
                   /\ UNCHANGED <<backups, backup_path>>
    /\ UNCHANGED <<dist, deploy_dir, removed, monVars>>

\* the pruning loop of create_backup, in the order of the names; return True,
\* or the rmtree of one entry raises and the entries before it are gone
PruneBackups ==
    /\ dpc = "prune"
    /\ \/ /\ backups' = backups \ Pruned(backups)
          /\ dpc' = "deploy"
          /\ UNCHANGED <<deploy_errors, success>>
       \/ \E b \in Pruned(backups) :
            /\ backups' = backups \ {c \in Pruned(backups) : c.name < b.name}
            /\ StepFails("create_backup")
    /\ UNCHANGED <<dist, deploy_dir, backup_path, ran, removed, monVars>>

\* deploy_files: if self.deploy_dir.exists(): shutil.rmtree(self.deploy_dir)
RemoveDeployed ==
    /\ dpc = "deploy"
    /\ ran' = Append(ran, "deploy_files")
    /\ \/ /\ deploy_dir' = "absent"
          /\ removed' = (deploy_dir # "absent")
          /\ dpc' = "copy"
          /\ UNCHANGED <<deploy_errors, success>>
       \/ /\ deploy_dir # "absent"
          /\ StepFails("deploy_files")
          /\ UNCHANGED <<deploy_dir, removed>>
    /\ UNCHANGED <<dist, backups, backup_path, monVars>>

\* deploy_files: shutil.copytree(self.dist_dir, self.deploy_dir), the chmods
CopyFiles ==
    /\ dpc = "copy"
    /\ \/ /\ deploy_dir' = "new"
          /\ dpc' = "config"
          /\ UNCHANGED <<deploy_errors, success>>
       \/ /\ deploy_dir' = "partial"
          /\ StepFails("deploy_files")
    /\ UNCHANGED <<dist, backups, backup_path, ran, removed, monVars>>

\* if not self.update_server_config(): return False
UpdateServerConfig ==
    /\ dpc = "config"
    /\ ran' = Append(ran, "update_server_config")
    /\ \/ /\ dpc' = "service"
          /\ UNCHANGED <<deploy_errors, success>>
       \/ StepFails("update_server_config")
    /\ UNCHANGED <<dist, deploy_dir, backups, backup_path, removed, monVars>>

\* if not self.create_service_file(): return False
CreateServiceFile ==
    /\ dpc = "service"
    /\ ran' = Append(ran, "create_service_file")
    /\ \/ /\ dpc' = "report"
          /\ UNCHANGED <<deploy_errors, success>>
       \/ StepFails("create_service_file")
    /\ UNCHANGED <<dist, deploy_dir, backups, backup_path, removed, monVars>>

\* the report of deploy_all and its return value
Report ==
    /\ dpc = "report"
    /\ success' = IF deploy_errors = <<>> THEN "true" ELSE "false"
    /\ dpc' = "returned"
    /\ UNCHANGED <<dist, deploy_dir, backups, backup_path, deploy_errors, ran,
                   removed, monVars>>

(* ---------------------------- specifications --------------------------- *)
\* Monitor.__init__: self.process_monitor = ProcessMonitor()
Init == Constructed /\ process_name = DefaultProcessName /\ DeployIdle

\* a ProcessMonitor constructed with a filter of any letter case
InitLookup ==
    Constructed /\ ~steady /\ process_name \in NameFilters /\ DeployIdle

\* the steps the program takes by itself
Program ==
    \/ Construct \/ MainExit
    \/ Start \/ While
    \/ UpdCpu \/ UpdMem \/ UpdDisk
    \/ ProbeSend \/ ProbeResponse \/ ProbeError \/ ProbeExcept
    \/ FindProcesses \/ GetProcessInfo
    \/ AsmCpu \/ AsmMem \/ AsmDisk \/ Assemble
    \/ SaveOpen \/ SaveWrite \/ SaveExcept
    \/ Render \/ Alerts \/ Sleep
    \/ Except \/ Finally

Next == Program \/ ProbeStall \/ Interrupt

Spec == Init /\ [][Next]_vars

\* the interpreter always runs the next statement; the server and the
\* operator are under no obligation
FairSpec == Init /\ [][Next]_vars /\ WF_vars(Program)

\* the program around a ProcessMonitor with any filter
LookupSpec == InitLookup /\ [][Next]_vars

\* deploy.py main(): deployer = Deployer(args), the monitor not running
InitDeploy ==
    /\ Constructed /\ steady /\ serverUp /\ ~quiet
    /\ process_name = DefaultProcessName
    /\ DeployerConstructed

\* deploy_all, one step at a time
NextDeploy ==
    \/ CheckRequirements
    \/ CreateBackup \/ PruneBackups
    \/ RemoveDeployed \/ CopyFiles
    \/ UpdateServerConfig \/ CreateServiceFile
    \/ Report

DeploySpec == InitDeploy /\ [][NextDeploy]_vars

(* ================================ claims =============================== *)
StoppedPcs == {"except", "finally", "done", "main_except", "exited"}
Interrupted == interruptedAt # "never"

(* C1: each history buffer (cpu, memory, disk, response times) holds the    *)
(* last min(K, 60) of the K values appended to it, in insertion order, its  *)
(* length never exceeds 60, for K > 60 its oldest value is the (K-60+1)-th  *)
(* appended one, and between update_history calls K is the number of calls. *)
HistoryPairs ==
    << <<cpu_history, cpuLog>>, <<memory_history, memLog>>,
       <<disk_history, diskLog>>, <<response_times, rtLog>> >>

C1_HistoryFifo ==
    /\ \A i \in 1..4 :
         LET buf == HistoryPairs[i][1]
             log == HistoryPairs[i][2]
             K == Len(log)
         IN /\ Len(buf) = Min(K, 60)
            /\ Len(buf) <= 60
            /\ \A j \in 1..Len(buf) : buf[j] = log[K - Len(buf) + j]
            /\ K > 60 => buf[1] = log[K - 60 + 1]
    /\ pc \in (TryPcs \ {"upd_mem", "upd_disk"}) =>
         /\ Len(cpuLog) = updCalls
         /\ Len(memLog) = updCalls
         /\ Len(diskLog) = updCalls

C1_Witness ==
    /\ pc = "sleep"
    /\ updCalls > 61
    /\ Len(rtLog) > 61
    /\ Len(cpu_history) = 60
    /\ cpu_history[1] = cpuLog[updCalls - 59]
    /\ cpu_history[1] # cpuLog[1]

(* C2: a failed probe leaves response_times unchanged and appends exactly   *)
(* one ErrorRecord, evicting the oldest at capacity, so the error FIFO      *)
(* always holds min(failed probes so far, 100) records.                     *)
FailedProbeStep == pc = "probe_except" /\ pc' = "find"

C2_FailedProbe ==
    /\ [](Len(errors) = Min(failures, 100))
    /\ [][(FailedProbeStep \/ failures' # failures) =>
            /\ FailedProbeStep
            /\ failures' = failures + 1
            /\ Len(errors') = Min(Len(errors) + 1, 100)
            /\ response_times' = response_times
            /\ rtLog' = rtLog
            /\ errors'[Len(errors')] = [time |-> round, error |-> exc.msg]
            /\ \A j \in 1..(Len(errors') - 1) :
                 errors'[j] = errors[Len(errors) - (Len(errors') - 1) + j]
            /\ health'.is_alive = FALSE]_vars
    /\ [][(pc = "probe_wait" /\ pc' = "probe_except") =>
            (response_times' = response_times /\ errors' = errors)]_vars

C2_Witness ==
    /\ failures > 100
    /\ Len(errors) = 100
    /\ response_times = <<>>
    /\ errors[1].time = failures - 99

(* C3: a failed OS query for cpu, memory or disk does not abort             *)
(* update_history or collect_stats: it never propagates out of the round.   *)
MetricFailed == exc.cls = "OSError" /\ exc.msg \in {"cpu", "memory", "disk"}

C3_MetricFailureContained == ~(MetricFailed /\ pc \in StoppedPcs)

(* C4: failures of a metric query, of the probe, of the process lookup and  *)
(* of the persistence never end monitor(): without an interrupt the         *)
(* scheduler stays Running and nothing is raised to the caller.             *)
C4_OnlyInterruptStops ==
    ~Interrupted => (result = "running" /\ pc \notin StoppedPcs)

(* C5: a probe whose server never answers stalls the round only until the   *)
(* request's timeout: the wait for the response always ends.                *)
C5_HungProbeEnds == (pc = "probe_wait" /\ conn = "silent") ~> (pc # "probe_wait")

(* C6: after an interrupt anywhere in the loop, the only steps left are the *)
(* except clause and the finally clause, which can always be taken, and     *)
(* monitor() ends with is_running = False, returning without raising.       *)
C6_InterruptStopsCleanly ==
    Interrupted =>
      /\ pc \in StoppedPcs
      /\ pc # "exited" => ENABLED Program
      /\ pc = "finally" => exc = NoExc
      /\ pc \in {"done", "exited"} =>
           (~is_running /\ result = "returned" /\ exc = NoExc)

C6_Witness ==
    /\ interruptedAt = "save_write"
    /\ pc = "done"
    /\ ~is_running
    /\ result = "returned"

(* C7: when the scheduler has stopped on an interrupt, every round that     *)
(* was started has been finished (through its alert checks).                *)
C7_RoundFinishedBeforeStop ==
    (Interrupted /\ pc = "done") => completed = round

(* C8: when the scheduler has stopped on an interrupt, the stats file holds *)
(* the complete snapshot of the last round whose persistence succeeded.     *)
C8_LastSnapshotOnDisk ==
    (Interrupted /\ pc = "done" /\ lastSaved # NoValue) =>
      file = Complete(lastSaved)

(* C9: when the write of the stats file fails in a round, the failure is    *)
(* logged and goes no further: the snapshot in memory stays as assembled,   *)
(* the round renders it (unless quiet), evaluates the three alerts on it,   *)
(* sleeps, and the loop starts the next round.                              *)
SaveFailedNow == saveFailedIn = round /\ round > 0 /\ ~Interrupted

C9_Contained ==
    SaveFailedNow =>
      /\ pc \in {"save_except", "render", "alerts", "sleep", "while"}
      /\ is_running /\ result = "running"
      /\ pc # "save_except" => (exc = NoExc /\ "save_error" \in roundLog)
      /\ stats.timestamp = round
      /\ (pc \in {"alerts", "sleep", "while"} /\ ~quiet) => display = format_stats(stats)
      /\ pc \in {"sleep", "while"} =>
           /\ roundLog \ {"save_error"} = AlertsOf(stats)
           /\ completed = round
      /\ (pc # "while" \/ round < RoundLimit) => ENABLED Program

C9_SaveFailureContained ==
    /\ []C9_Contained
    /\ [][(pc \in {"save_open", "save_write", "save_except", "render", "alerts", "sleep"})
            => stats' = stats]_vars
    /\ [][(SaveFailedNow /\ pc = "while" /\ ~Interrupted') =>
            (pc' = "upd_cpu" /\ round' = round + 1 /\ is_running')]_vars

C9_Witness ==
    /\ saveFailedIn > 0
    /\ round = saveFailedIn + 1
    /\ pc = "upd_mem"
    /\ ~quiet
    /\ display = format_stats(stats)
    /\ file.state = "partial"

(* C10: in a round where find_processes returned no process,                *)
(* get_process_info is not called, the snapshot's process block is the      *)
(* empty structure, and the round goes on: it persists that snapshot and    *)
(* reaches its sleep.                                                       *)
AfterFindPcs == {"asm_cpu", "asm_mem", "asm_disk", "assemble", "save_open",
                 "save_write", "save_except", "render", "alerts", "sleep"}
AssembledPcs == {"save_open", "save_write", "save_except", "render", "alerts",
                 "sleep"}
SavedPcs == {"render", "alerts", "sleep"}

C10_NoProcess ==
    /\ [](processes = <<>> =>
            /\ pc # "getinfo"
            /\ pc \in AfterFindPcs =>
                 /\ infoCalls = 0
                 /\ process_info = EmptyDict
                 /\ ENABLED Program
            /\ pc \in AssembledPcs =>
                 (stats.timestamp = round /\ stats.process = EmptyDict)
            /\ (pc \in SavedPcs /\ saveFailedIn # round) =>
                 (file = Complete(stats) /\ file.data.process = EmptyDict))
    /\ [][(pc = "find" /\ exc' = NoExc /\ processes' = <<>>) =>
            (pc' = "asm_cpu" /\ process_info' = EmptyDict)]_vars

C10_Witness ==
    /\ processes = <<>>
    /\ pc = "sleep"
    /\ completed = round
    /\ infoCalls = 0
    /\ file = Complete(stats)
    /\ stats.process = EmptyDict
    /\ round > 1
    /\ lastSaved.timestamp = round

(* C11: a process that exits, or to which access is denied, between its     *)
(* enumeration in find_processes and the end of get_process_info is         *)
(* silently excluded: no exception of the process lookup is ever in flight  *)
(* outside the two functions, and the process block is the empty structure  *)
(* or the whole ProcessInfo of the first match.                             *)
C11_RaceSilentlyExcluded ==
    /\ exc.msg # "process"
    /\ \/ process_info = EmptyDict
       \/ processes # <<>> /\ process_info = ProcessInfo(processes[1])

(* C12: the error rate of every snapshot equals the number of error         *)
(* records in the error deque (0 when empty, at most 100); after three      *)
(* refused probes from a fresh start every round had is_alive false and     *)
(* the rate of round 3 is 3.                                                *)
C12_RateIsOccupancy ==
    pc \in AssembledPcs =>
      /\ Len(stats.application.recent_errors) <= ErrCap
      /\ stats.application.error_rate =
           [n |-> Len(stats.application.recent_errors), ulp |-> 0]
      /\ failures = round => ~stats.application.is_alive

(* C12, as the code has it: the error rate of every snapshot is the number  *)
(* of error records in the deque (at most 100) up to the rounding of        *)
(* (count / 100) * 100 in double arithmetic: it is the count exactly,       *)
(* except for the counts 7, 14, 28, 55, 56 (one ulp above) and 29, 57, 58   *)
(* (one ulp below); rendered with one decimal it is always the count.       *)
(* After three refused probes from a fresh start every round had is_alive   *)
(* false and the rate of round 3 is exactly 3.                              *)
C12_RateWithinRounding ==
    /\ pc \in AssembledPcs =>
         LET rate == stats.application.error_rate
             count == Len(stats.application.recent_errors)
         IN  /\ count <= ErrCap
             /\ rate.n = count
             /\ rate.ulp = (IF count \in {7, 14, 28, 55, 56} THEN 1
                            ELSE IF count \in {29, 57, 58} THEN -1 ELSE 0)
             /\ failures = round => ~stats.application.is_alive
             /\ (failures = 3 /\ round = 3) => rate = [n |-> 3, ulp |-> 0]
    /\ (pc \in {"alerts", "sleep"} /\ ~quiet) =>
         display.error_rate = 10 * Len(stats.application.recent_errors)

C12_Witness ==
    /\ pc = "sleep"
    /\ round = 3 /\ failures = 3
    /\ Len(errors) = 3
    /\ stats.application.error_rate.n = 3
    /\ ~stats.application.is_alive

(* C13: the average response time of every snapshot is 0 when no latency    *)
(* has been retained, however many probes have failed, and otherwise the    *)
(* arithmetic mean of the at most 60 latest latencies of answered probes;   *)
(* a failed probe leaves the latency history and the average as they were.  *)
FailedProbeReturns == pc = "probe_except" /\ pc' = "find"

C13_AverageLatency ==
    /\ [](pc \in AssembledPcs =>
            LET avg == stats.application.avg_response_time
                kept == LastN(rtLog, HistCap)
            IN  /\ Len(kept) <= HistCap
                /\ avg.den > 0
                /\ kept = <<>> => avg.num = 0
                /\ avg.num * Len(kept) = avg.den * SumSeq(kept))
    /\ [][FailedProbeReturns =>
            /\ response_times' = response_times
            /\ get_average_response_time(response_times')
                 = get_average_response_time(response_times)]_vars

C13_Witness ==
    /\ pc = "sleep"
    /\ failures >= 1
    /\ Len(rtLog) >= 2
    /\ stats.application.avg_response_time.den > 1

(* C14: the health record check_health returns has is_alive true exactly    *)
(* when a response was received and its status code is 200; when the        *)
(* request raised, the record is status 0, response_time 0, is_alive false  *)
(* and the message of the exception.                                        *)
HealthReturnedPcs == {"find", "getinfo"} \cup AfterFindPcs

C14_HealthRecord ==
    pc \in HealthReturnedPcs =>
      /\ health.is_alive <=> ("status" \in DOMAIN wire /\ wire.status = HttpOk)
      /\ "status" \in DOMAIN wire =>
           health = [status |-> wire.status, response_time |-> Last(rtLog),
                     is_alive |-> (wire.status = 200)]
      /\ "error" \in DOMAIN wire =>
           health = [status |-> 0, response_time |-> 0, is_alive |-> FALSE,
                     error |-> wire.error]

C14_Witness ==
    /\ pc = "find"
    /\ "status" \in DOMAIN wire
    /\ wire.status = 500
    /\ health.status = 500
    /\ ~health.is_alive

(* C15: in every round a CPU warning is logged iff cpu_percent of the       *)
(* snapshot assembled in that round is above 90, a memory warning iff its   *)
(* memory_percent is above 90, and the error alert iff its is_alive is      *)
(* false, each of the three whatever the other two.                         *)
C15_AlertConditions ==
    pc = "sleep" =>
      /\ stats.timestamp = round
      /\ "cpu_warning" \in roundLog <=> stats.system.cpu_percent > 90
      /\ "memory_warning" \in roundLog <=> stats.system.memory_percent > 90
      /\ "app_error" \in roundLog <=> ~stats.application.is_alive

C15_Witness ==
    /\ pc = "sleep"
    /\ stats.system.cpu_percent = 90
    /\ stats.system.memory_percent = 91
    /\ stats.application.is_alive
    /\ roundLog = {"memory_warning"}

(* C16: an alert is logged again in every round its condition holds, and    *)
(* a round that logged alerts leaves the loop running: the sleep and the    *)
(* next round follow.                                                       *)
AlertEvents == {"cpu_warning", "memory_warning", "app_error"}

AlertCondition(a) ==
    CASE a = "cpu_warning" -> stats.system.cpu_percent > 90
      [] a = "memory_warning" -> stats.system.memory_percent > 90
      [] a = "app_error" -> ~stats.application.is_alive

AfterAlertRound == pc \in {"sleep", "while"} /\ roundLog \cap AlertEvents # {}

C16_AlertsRepeatAndPass ==
    /\ [](pc = "sleep" =>
            \A a \in prevLog \cap AlertEvents :
               AlertCondition(a) => a \in roundLog)
    /\ [](AfterAlertRound =>
            /\ is_running /\ result = "running" /\ exc = NoExc
            /\ pc = "sleep" => ENABLED Sleep
            /\ (pc = "while" /\ round < RoundLimit) => ENABLED While)
    /\ [][(AfterAlertRound /\ pc' # pc /\ exc' = NoExc) =>
            /\ is_running'
            /\ pc = "sleep" => pc' = "while"
            /\ pc = "while" => (pc' = "upd_cpu" /\ round' = round + 1)]_vars

C16_Witness ==
    /\ pc = "sleep"
    /\ round >= 2
    /\ "cpu_warning" \in prevLog
    /\ "cpu_warning" \in roundLog

(* C17: whenever find_processes has returned, self.processes is exactly     *)
(* the enumerated processes whose name contains the filter, whatever the    *)
(* letter case of either, and whose command line contains server.py, in     *)
(* enumeration order and with nothing kept from an earlier call.            *)
NameAndEntryPointMatch(proc) ==
    /\ Contains(Lower(proc.name), Lower(process_name))
    /\ \E i \in 1..Len(proc.cmdline) :
         Contains(Lower(proc.cmdline[i]), EntryPoint)

C17_CaseInsensitiveFilter ==
    exc.msg # "process" =>
      processes = SelectSeq(enumerated, NameAndEntryPointMatch)

(* C18: the process exits with code 0 when the loop was ended by an         *)
(* operator interrupt, and with a non-zero code when a failure came out of  *)
(* the construction of Monitor or out of monitor(); it has no exit code     *)
(* before, and once monitor() has ended the exit follows.                   *)
C18_ExitCodes ==
    /\ exit_code # <<>> <=> pc = "exited"
    /\ pc \in {"done", "main_except"} => ENABLED MainExit
    /\ pc = "exited" =>
         /\ Len(exit_code) = 1
         /\ Interrupted => exit_code[1] = 0
         /\ exc # NoExc => exit_code[1] # 0
         /\ exit_code[1] # 0 => "critical" \in roundLog

C18_Witness ==
    /\ pc = "exited"
    /\ round >= 1
    /\ exc.cls = "OSError"
    /\ result = "raised"
    /\ exit_code = <<1>>

(* C19: within a round the steps begin in the order history update, probe,  *)
(* process lookup, snapshot assembly, persistence, rendering (left out in   *)
(* quiet mode), alert checks, sleep, each at most once and none skipped;    *)
(* the snapshot is written before it is rendered or alert-checked, and the  *)
(* sleep comes after the alerts.                                            *)
StepRank(step) ==
    CASE step = "history" -> 1 [] step = "probe" -> 2 [] step = "lookup" -> 3
      [] step = "assembly" -> 4 [] step = "persist" -> 5 [] step = "render" -> 6
      [] step = "alerts" -> 7 [] step = "sleep" -> 8

C19_StepOrder ==
    /\ steps # <<>> => steps[1] = "history"
    /\ \A i \in 1..(Len(steps) - 1) :
         \/ StepRank(steps[i + 1]) = StepRank(steps[i]) + 1
         \/ quiet /\ steps[i] = "persist" /\ steps[i + 1] = "alerts"
    /\ quiet => \A i \in 1..Len(steps) : steps[i] # "render"
    /\ pc \in {"render", "alerts", "sleep"} =>
         /\ stats.timestamp = round
         /\ saveFailedIn = round \/ file = Complete(stats)
    /\ (pc \in {"alerts", "sleep"} /\ ~quiet) => display = format_stats(stats)
    /\ pc = "sleep" => completed = round

C19_Witness ==
    /\ pc = "while"
    /\ ~quiet
    /\ round >= 2
    /\ steps = <<"history", "probe", "lookup", "assembly", "persist", "render",
                 "alerts", "sleep">>

(* C20: update_history is atomic over the three streams: in every state     *)
(* outside a call, also after a call that failed part-way, the three        *)
(* histories have received the same number of samples, one for each call.   *)
UpdatingPcs == {"upd_mem", "upd_disk"}

C20_HistoriesInStep ==
    pc \notin UpdatingPcs =>
      /\ Len(cpuLog) = Len(memLog)
      /\ Len(memLog) = Len(diskLog)
      /\ Len(cpu_history) = Len(memory_history)
      /\ Len(memory_history) = Len(disk_history)

(* C21: in every snapshot the point values cpu_percent, memory_percent and  *)
(* disk_percent are the values update_history sampled in that round: each   *)
(* equals the last element of the history list in the same snapshot.        *)
C21_PointValuesFromHistory ==
    pc \in AssembledPcs =>
      /\ stats.system.cpu_percent = Last(stats.system.cpu_history)
      /\ stats.system.memory_percent = Last(stats.system.memory_history)
      /\ stats.system.disk_percent = Last(stats.system.disk_history)

(* C22: after a round whose persistence succeeded the stats file holds      *)
(* exactly that round's snapshot, and between rounds the file is the        *)
(* snapshot that was persisted last.                                        *)
BetweenRoundsPcs == {"sleep", "while"}

C22_FileIsLatestSnapshot ==
    /\ (pc \in SavedPcs /\ saveFailedIn # round) =>
         (file = Complete(stats) /\ file.data.timestamp = round)
    /\ (pc \in BetweenRoundsPcs /\ lastSaved # NoValue) =>
         file = Complete(lastSaved)

(* C23: the history and error lists in a snapshot are copies taken when it  *)
(* was assembled: appends to the deques in later rounds leave the lists of  *)
(* an earlier snapshot as they were, so only an assembly changes stats.     *)
SamplesUpTo(log, t) == LastN(SubSeq(log, 1, t), HistCap)

C23_SnapshotListsAreCopies ==
    /\ [](stats # NoValue =>
            LET t == stats.timestamp IN
            /\ stats.system.cpu_history = SamplesUpTo(cpuLog, t)
            /\ stats.system.memory_history = SamplesUpTo(memLog, t)
            /\ stats.system.disk_history = SamplesUpTo(diskLog, t)
            /\ \A i \in 1..Len(stats.application.recent_errors) :
                 stats.application.recent_errors[i].time <= t)
    /\ [][stats' # stats => (pc = "assemble" /\ stats' = Snapshot)]_vars

C23_Witness ==
    /\ pc = "find"
    /\ stats # NoValue
    /\ round = stats.timestamp + 1
    /\ Len(cpu_history) = Len(stats.system.cpu_history) + 1
    /\ Len(disk_history) = Len(stats.system.disk_history) + 1
    /\ Len(errors) = Len(stats.application.recent_errors) + 1

(* C24: save_stats writes the stats file in place: while it is between the  *)
(* open and the end of the write, the file a concurrent reader finds is     *)
(* empty, neither the snapshot persisted before nor the new one; after a    *)
(* failed write it is an incomplete one.                                    *)
C24_InPlaceWrite ==
    /\ pc = "save_write" =>
         /\ file = Truncated
         /\ file # Complete(stats)
         /\ lastSaved # NoValue => file # Complete(lastSaved)
    /\ (pc = "save_except" /\ exc.msg = "write") =>
         (file = Partial(stats) /\ file # Complete(stats))

C24_Witness ==
    /\ pc = "save_write"
    /\ round >= 2
    /\ lastSaved # NoValue
    /\ lastSaved.timestamp = round - 1
    /\ stats.timestamp = round
    /\ file = Truncated

(* C25: no step clears or shortens the error deque: its occupancy and the   *)
(* error rate of successive snapshots never decrease, a step changes the    *)
(* deque only by appending one record (dropping the oldest when full), and  *)
(* an answered probe leaves it as it was.                                   *)
RateLeq(a, b) == a.n < b.n \/ a = b

AnsweredProbeStep == pc = "probe_wait" /\ pc' = "find"

ResponseArrives ==
    /\ pc = "probe_wait" /\ conn = "pending" /\ conn' = "idle"
    /\ interruptedAt' = interruptedAt

C26_NonOkResponse ==
    /\ [][(ResponseArrives /\ wire'.status # 200) =>
            /\ pc' = "find" /\ exc' = NoExc
            /\ rtLog' = Append(rtLog, health'.response_time)
            /\ response_times' =
                 LastN(Append(response_times, health'.response_time), HistCap)
            /\ errors' = errors /\ failures' = failures
            /\ get_error_rate(errors') = get_error_rate(errors)
            /\ health'.status = wire'.status
            /\ ~health'.is_alive]_vars
    /\ []((pc = "sleep" /\ "status" \in DOMAIN wire /\ wire.status # 200) =>
            /\ "app_error" \in roundLog
            /\ ~stats.application.is_alive
            /\ stats.application.status_code = wire.status
            /\ \A i \in 1..Len(errors) : errors[i].time # round)

C26_Witness ==
    /\ pc = "sleep"
    /\ "status" \in DOMAIN wire
    /\ wire.status = 500
    /\ "app_error" \in roundLog
    /\ errors = <<>>
    /\ Len(response_times) = round
    /\ stats.application.error_rate.n = 0

(* C27: deploy_files deletes an existing deploy directory only after        *)
(* check_requirements and create_backup have returned True in the same      *)
(* run; whenever it has deleted one, a backup of that directory made in     *)
(* this run is in backups/ (the pruning has kept it); and a step that       *)
(* fails is the last step that runs.                                        *)
DeploySteps == <<"check_requirements", "create_backup", "deploy_files",
                 "update_server_config", "create_service_file">>

C27_BackupBeforeDelete ==
    /\ ran = SubSeq(DeploySteps, 1, Len(ran))
    /\ removed =>
         /\ Len(ran) >= 3
         /\ backup_path # <<>>
         /\ [name |-> backup_path[1], of |-> "old"] \in backups
    /\ deploy_errors # <<>> =>
         /\ dpc = "returned" /\ success = "false"
         /\ deploy_errors = <<ran[Len(ran)]>>

====
